---- MODULE Spec2Model ----
(***************************************************************************)
(* A model of padeopsIO's Turbine (src/padeopsIO/turbine.py): the kernel   *)
(* and correction caches, REWS evaluation, sort-key configuration, turbine *)
(* comparison and the control-point generator.                             *)
(*                                                                         *)
(* Numbers.  Coordinates, diameters, filter widths and grid spacings are   *)
(* integers.  Real-valued quantities are fixed point: Gaussian weights in  *)
(* units of 1/WScale, normalised kernels in units of 1/KScale, correction  *)
(* factors in units of 1/MScale.  Angles are whole multiples of 90         *)
(* degrees, where sine and cosine are exact.                               *)
(***************************************************************************)
EXTENDS Integers, Sequences, FiniteSets, TLC

VARIABLES
    input_nml,  \* self.input_nml: the namelist the turbine was built from
    attrs,      \* the namelist variables copied into self.__dict__
    kernel,     \* self.kernel: None or Some(3D array)
    M,          \* self.M: None or Some(correction factor)
    sort_by,    \* self.sort_by
    ret,        \* the last call on the turbine: its arguments and outcome
    nsynth,     \* how many kernel syntheses have completed
    ncalls,     \* how many calls have been made
    ctrl,       \* the control points last produced by _get_ctrl_pts
    overwritten,\* history: some get_kernel call has passed overwrite=True
    first,      \* history: the kernel the first successful get_kernel call gave
    turbines    \* a turbine array (list of turbines), for comparison and sorting

vars == <<input_nml, attrs, kernel, M, sort_by, ret, nsynth, ncalls, ctrl,
          overwritten, first, turbines>>

(* ------------------------------ bounds -------------------------------- *)

\* calls made on one turbine in a behaviour
MaxCalls == 3
\* turbines in an array
MaxTurbines == 3
\* largest rotor diameter and grid spacing given to the control-point generator
MaxDiam == 4
MaxSpacing == 3

(* --------------------------- fixed point ------------------------------ *)

WScale == 1000
KScale == 1000
MScale == 1000
\* sqrt(3 * pi) = 3.0700..., in units of 1/MScale
Sqrt3Pi == 3070

(* ----------------------------- values --------------------------------- *)

None == [tag |-> "None"]
Some(v) == [tag |-> "Some", v |-> v]

Abs(a) == IF a < 0 THEN -a ELSE a

RECURSIVE SeqSum(_)
SeqSum(s) == IF s = <<>> THEN 0 ELSE Head(s) + SeqSum(Tail(s))

RECURSIVE SetToSeq(_)
\* the elements of a finite set of integer tuples, in ascending order
SetToSeq(S) ==
    IF S = {} THEN <<>>
    ELSE LET m == CHOOSE a \in S : \A b \in S :
                      \/ a = b
                      \/ \E k \in 1..Len(a) :
                            /\ a[k] < b[k]
                            /\ \A j \in 1..(k - 1) : a[j] = b[j]
         IN  <<m>> \o SetToSeq(S \ {m})

SeqMin(s) == CHOOSE v \in {s[i] : i \in DOMAIN s} : \A i \in DOMAIN s : v <= s[i]
SeqMax(s) == CHOOSE v \in {s[i] : i \in DOMAIN s} : \A i \in DOMAIN s : v >= s[i]

(* ------------------------ namelist lookup ----------------------------- *)

req_vars == <<"xloc", "yloc", "zloc", "ct", "diam">>
opt_vars == <<"yaw", "tilt", "filterwidth", "usecorrection">>

\* Recursive key lookup in a nested namelist, first match wins.  A namelist
\* is a function from group names to groups, a group a function from
\* variable names to Some(value).
key_search_r(nml, key) ==
    LET hits == {g \in DOMAIN nml : key \in DOMAIN nml[g]}
    IN  IF hits = {} THEN None
        ELSE nml[CHOOSE g \in hits : TRUE][key]

\* Turbine.__init__'s two loops: the required and the optional variables
\* found in the namelist become attributes.
InitAttrs(nml) ==
    LET names == {req_vars[i] : i \in DOMAIN req_vars}
                 \cup {opt_vars[i] : i \in DOMAIN opt_vars}
        found == {k \in names : key_search_r(nml, k) # None}
    IN  [k \in found |-> key_search_r(nml, k).v]

\* the keys of self.__dict__ once __init__ has returned
DictKeys(a) ==
    DOMAIN a \cup {"verbose", "input_nml", "kernel", "M", "ud", "sort_by", "n", "pos"}

(* ------------------------ control points ------------------------------ *)

Cos(deg) == CASE deg % 360 = 0 -> 1
              [] deg % 360 = 90 -> 0
              [] deg % 360 = 180 -> -1
              [] deg % 360 = 270 -> 0

Sin(deg) == CASE deg % 360 = 0 -> 0
              [] deg % 360 = 90 -> 1
              [] deg % 360 = 180 -> 0
              [] deg % 360 = 270 -> -1

\* np.ceil(R / d) with R = diam / 2
PerR(diam, d) == (diam + 2 * d - 1) \div (2 * d)

\* the mask (Y**2 + Z**2) < R**2, with R = diam / 2
InDisk_le(diam, Y, Z) == 4 * (Y * Y + Z * Z) <= diam * diam
InDisk(diam, Y, Z) == 4 * (Y * Y + Z * Z) < diam * diam

\* _get_ctrl_pts up to the call of _rotate_ctrl_pts: the lattice points
\* inside the disk, in ravel order of the "ij" meshgrid (y outer, z inner)
Lattice(a, dy, dz) ==
    LET ny == PerR(a.diam, dy)
        nz == PerR(a.diam, dz)
        offs == {o \in (-ny..ny) \X (-nz..nz) :
                    InDisk(a.diam, o[1] * dy, o[2] * dz)}
        s == SetToSeq(offs)
    IN  [i \in DOMAIN s |->
            <<a.xloc, s[i][1] * dy + a.yloc, s[i][2] * dz + a.zloc>>]

\* _rotate_ctrl_pts applied to one point, for a turbine that has both
\* attributes yaw and tilt
RotatePt(a, p) ==
    IF a.yaw = 0 /\ a.tilt = 0 THEN p
    ELSE LET xtmp == (p[1] - a.xloc) * Cos(a.yaw) - (p[2] - a.yloc) * Sin(a.yaw) + a.xloc
             ytmp == (p[1] - a.xloc) * Sin(a.yaw) + (p[2] - a.yloc) * Cos(a.yaw) + a.yloc
             ztmp == p[3]
         IN  << (xtmp - a.xloc) * Cos(a.tilt) + (ztmp - a.zloc) * Sin(a.tilt) + a.xloc,
                ytmp,
                (0 - (xtmp - a.xloc)) * Sin(a.tilt) + (ztmp - a.zloc) * Cos(a.tilt) + a.zloc >>

\* reading self.yaw and self.tilt raises AttributeError when the namelist
\* gave none
CanRotate(a) == "yaw" \in DOMAIN a /\ "tilt" \in DOMAIN a

_rotate_ctrl_pts(a, pts) == [i \in DOMAIN pts |-> RotatePt(a, pts[i])]

\* _get_ctrl_pts for a turbine that can be rotated
_get_ctrl_pts(a, dy, dz) == _rotate_ctrl_pts(a, Lattice(a, dy, dz))

(* ------------------------- kernel synthesis --------------------------- *)

\* a uniform coordinate axis of n points from lo with spacing d
Axis(lo, n, d) == [i \in 1..n |-> lo + (i - 1) * d]

\* the grid handed to get_kernel: spacing 2, so that the two normalisations
\* differ, and an x axis longer than the sub-box around the disk
Grid == [x |-> Axis(-4, 4, 2), y |-> Axis(-2, 3, 2), z |-> Axis(-2, 3, 2)]
Grids == {Grid}

Nodes(g) == (1..Len(g.x)) \X (1..Len(g.y)) \X (1..Len(g.z))

\* np.argmin(np.abs(ax - v)): the first index nearest to v
Nearest(ax, v) ==
    CHOOSE i \in DOMAIN ax :
        /\ \A j \in DOMAIN ax : Abs(ax[i] - v) <= Abs(ax[j] - v)
        /\ \A j \in 1..(i - 1) : Abs(ax[j] - v) > Abs(ax[i] - v)

\* get_xids(..., return_slice=True) on one axis: the index range between
\* the grid points nearest to the two bounds
get_xids(ax, lo, hi) ==
    LET a == Nearest(ax, lo)
        b == Nearest(ax, hi)
    IN  (IF a < b THEN a ELSE b)..(IF a < b THEN b ELSE a)

\* C1 = (6 / pi / fwidth**2) ** 1.5, in units of 1/WScale
C1Q(fw) == CASE fw = 1 -> 2639
             [] fw = 2 -> 330
             [] fw = 3 -> 98
             [] OTHER -> 41

\* exp(-6 / fwidth**2), in units of 1/WScale
ExpBase(fw) == CASE fw = 1 -> 2
                 [] fw = 2 -> 223
                 [] fw = 3 -> 513
                 [] OTHER -> 687

RECURSIVE ExpPow(_, _, _)
\* acc * (b / WScale) ** n, in units of 1/WScale
ExpPow(b, n, acc) == IF n = 0 \/ acc = 0 THEN acc
                     ELSE ExpPow(b, n - 1, (acc * b) \div WScale)

\* C1 * exp(-6 / fwidth**2 * d2) for an integer squared distance d2
Gauss(fw, d2) == (C1Q(fw) * ExpPow(ExpBase(fw), d2, WScale)) \div WScale

Dist2(p, q) == (p[1] - q[1]) * (p[1] - q[1]) + (p[2] - q[2]) * (p[2] - q[2])
               + (p[3] - q[3]) * (p[3] - q[3])

RECURSIVE SumOver(_, _)
SumOver(f, S) == IF S = {} THEN 0
                 ELSE LET e == CHOOSE e \in S : TRUE
                      IN  f[e] + SumOver(f, S \ {e})

\* kernel[kernel < 1e-10] = 0; one fixed-point unit is the smallest value kept
KernelFloor == 1

\* a kernel that np.sum(kernel) = 0 turns into NaN everywhere
NaN == -1

\* lines 239-285 of get_kernel: the sum of one Gaussian per control point on
\* the sub-box around the disk, floored and normalised
Accumulate(g, pts, fw, buffer_fact, normalize) ==
    LET buff == buffer_fact * fw
        xs == [i \in DOMAIN pts |-> pts[i][1]]
        ys == [i \in DOMAIN pts |-> pts[i][2]]
        zs == [i \in DOMAIN pts |-> pts[i][3]]
        xids == get_xids(g.x, SeqMin(xs) - buff, SeqMax(xs) + buff)
        yids == get_xids(g.y, SeqMin(ys) - buff, SeqMax(ys) + buff)
        zids == get_xids(g.z, SeqMin(zs) - buff, SeqMax(zs) + buff)
        raw == [n \in Nodes(g) |->
                  IF n[1] \in xids /\ n[2] \in yids /\ n[3] \in zids
                  THEN SeqSum([i \in DOMAIN pts |->
                          Gauss(fw, Dist2(<<g.x[n[1]], g.y[n[2]], g.z[n[3]]>>, pts[i]))])
                  ELSE 0]
        cut == [n \in Nodes(g) |-> IF raw[n] < KernelFloor THEN 0 ELSE raw[n]]
        total == SumOver(cut, Nodes(g))
        dx == g.x[2] - g.x[1]
        dy == g.y[2] - g.y[1]
        dz == g.z[2] - g.z[1]
        den == IF normalize THEN total ELSE total * dx * dy * dz
    IN  [n \in Nodes(g) |-> IF den = 0 THEN NaN ELSE (cut[n] * KScale) \div den]

(* ------------------------- Turbine.get_kernel ------------------------- *)

\* line 220: the cached kernel is used
CacheHit_never(k, overwrite) == FALSE
CacheHit(k, overwrite) == k # None /\ ~overwrite

\* line 227
AdmSupported_any(ADM_type) == TRUE
AdmSupported(ADM_type) == ADM_type = 5

\* lines 229-230: the filter width of the call, else the namelist's
ResolveFwidth(fwidth, nml) ==
    IF fwidth # None THEN fwidth ELSE key_search_r(nml, "filterwidth")

\* The outcome of get_kernel on a turbine with cached kernel k, attributes a
\* and namelist nml: what is raised or returned, the kernel cached
\* afterwards, whether a synthesis completed, the control points produced.
\* (KernelCall_clear drops the cached kernel of a failing overwrite.)
KernelCall_clear(k, a, nml, args) ==
    IF CacheHit(k, args.overwrite)
    THEN [outcome |-> "ok", value |-> IF args.return_kernel THEN k ELSE None,
          kernel |-> k, synth |-> FALSE, ctrl |-> None]
    ELSE IF ~AdmSupported(args.ADM_type)
    THEN [outcome |-> "UnsupportedADM", value |-> None,
          kernel |-> IF args.overwrite THEN None ELSE k, synth |-> FALSE, ctrl |-> None]
    ELSE IF ResolveFwidth(args.fwidth, nml) = None
    THEN [outcome |-> "NoFilterwidth", value |-> None,
          kernel |-> IF args.overwrite THEN None ELSE k, synth |-> FALSE, ctrl |-> None]
    ELSE IF ~CanRotate(a)
    THEN [outcome |-> "AttributeError", value |-> None,
          kernel |-> IF args.overwrite THEN None ELSE k, synth |-> FALSE, ctrl |-> None]
    ELSE LET g == args.grid
             pts == _get_ctrl_pts(a, g.y[2] - g.y[1], g.z[2] - g.z[1])
             new == Some(Accumulate(g, pts, ResolveFwidth(args.fwidth, nml).v,
                                    args.buffer_fact, args.normalize))
         IN  [outcome |-> "ok", value |-> IF args.return_kernel THEN new ELSE None,
              kernel |-> IF args.return_kernel THEN k ELSE new,
              synth |-> TRUE, ctrl |-> Some(pts)]
KernelCall(k, a, nml, args) ==
    IF CacheHit(k, args.overwrite)
    THEN [outcome |-> "ok", value |-> IF args.return_kernel THEN k ELSE None,
          kernel |-> k, synth |-> FALSE, ctrl |-> None]
    ELSE IF ~AdmSupported(args.ADM_type)
    THEN [outcome |-> "UnsupportedADM", value |-> None,
          kernel |-> k, synth |-> FALSE, ctrl |-> None]
    ELSE IF ResolveFwidth(args.fwidth, nml) = None
    THEN [outcome |-> "NoFilterwidth", value |-> None,
          kernel |-> k, synth |-> FALSE, ctrl |-> None]
    ELSE IF ~CanRotate(a)
    THEN [outcome |-> "AttributeError", value |-> None,
          kernel |-> k, synth |-> FALSE, ctrl |-> None]
    ELSE LET g == args.grid
             pts == _get_ctrl_pts(a, g.y[2] - g.y[1], g.z[2] - g.z[1])
             new == Some(Accumulate(g, pts, ResolveFwidth(args.fwidth, nml).v,
                                    args.buffer_fact, args.normalize))
         IN  [outcome |-> "ok", value |-> IF args.return_kernel THEN new ELSE None,
              kernel |-> IF args.return_kernel THEN k ELSE new,
              synth |-> TRUE, ctrl |-> Some(pts)]

\* the arguments get_kernel is called with
ADMTypes == {4, 5}
FWidthArgs == {None, Some(1)}
BufferFacts == {3}
KernelArgs ==
    [grid : Grids, ADM_type : ADMTypes, fwidth : FWidthArgs, buffer_fact : BufferFacts,
     return_kernel : BOOLEAN, normalize : BOOLEAN, overwrite : BOOLEAN]

get_kernel ==
    /\ ncalls < MaxCalls
    /\ \E args \in KernelArgs :
          LET r == KernelCall(kernel, attrs, input_nml, args)
          IN  /\ kernel' = r.kernel
              /\ nsynth' = IF r.synth THEN nsynth + 1 ELSE nsynth
              /\ ctrl' = r.ctrl
              /\ ret' = [op |-> "get_kernel", args |-> args,
                         outcome |-> r.outcome, value |-> r.value]
              /\ overwritten' = (overwritten \/ args.overwrite)
              /\ first' = IF first # None \/ r.outcome # "ok" THEN first
                          ELSE IF args.return_kernel THEN r.value ELSE r.kernel
    /\ ncalls' = ncalls + 1
    /\ UNCHANGED <<input_nml, attrs, M, sort_by, turbines>>

(* ------------------- correction factor and REWS ----------------------- *)

\* get_correction(CT, fwidth, D): M = 1 / (1 + CT / 2 * fwidth / sqrt(3 pi) / D),
\* in units of 1/MScale
get_correction(CT, fwidth, D) ==
    (MScale * 2 * Sqrt3Pi * D) \div (2 * Sqrt3Pi * D + CT * fwidth * MScale)

\* the factor Turbine.get_correction computes (lines 141-147)
CorrectionOf(a, nml) ==
    LET fwidth == key_search_r(nml, "filterwidth")
        use_corr == key_search_r(nml, "usecorrection")
    IN  IF fwidth = None \/ use_corr = None \/ use_corr = Some(FALSE)
        THEN MScale
        ELSE get_correction(a.ct, fwidth.v, a.diam)

\* self.M once Turbine.get_correction(return_correction) has run on a
\* turbine whose self.M was m: the factor is stored only when
\* return_correction is False
MAfterCorrection(m, return_correction, a, nml) ==
    IF return_correction THEN m ELSE Some(CorrectionOf(a, nml))

\* the default of return_correction in the signature (line 132)
DefaultReturnCorrection == TRUE

\* Turbine.get_correction(return_correction): returns the factor, or stores
\* it in self.M when return_correction is False
Turbine_get_correction ==
    /\ ncalls < MaxCalls
    /\ \E return_correction \in BOOLEAN :
          LET m == CorrectionOf(attrs, input_nml)
          IN  /\ M' = MAfterCorrection(M, return_correction, attrs, input_nml)
              /\ ret' = [op |-> "get_correction",
                         args |-> [return_correction |-> return_correction],
                         outcome |-> "ok",
                         value |-> IF return_correction THEN Some(m) ELSE None]
    /\ ncalls' = ncalls + 1
    /\ ctrl' = None
    /\ UNCHANGED <<input_nml, attrs, kernel, sort_by, nsynth, overwritten, first, turbines>>

\* get_REWS(ufield, kernel, M) = np.sum(ufield * kernel) * M, in units of
\* 1/(KScale * MScale)
get_REWS(ufield, k, m) ==
    SumOver([n \in DOMAIN ufield |-> ufield[n] * k[n]], DOMAIN ufield) * m

\* the wind fields and explicit kernels get_REWS is called with
UniformField(g) == [n \in Nodes(g) |-> 1]
ShearField(g) == [n \in Nodes(g) |-> n[3]]
UFields == {UniformField(g) : g \in Grids} \cup {ShearField(g) : g \in Grids}
FlatKernel(g) == [n \in Nodes(g) |-> KScale \div Cardinality(Nodes(g))]
KernelArgsREWS == {None, Some(FlatKernel(Grid))}

\* Turbine.get_REWS(ufield, kernel): the correction factor in effect once
\* line 164 has run, the kernel line 166 hands to get_REWS, the outcome
REWSCall(k, m, a, nml, ufield, karg) ==
    IF k = None /\ karg = None
    THEN [outcome |-> "NoKernel", value |-> None, M |-> m]
    ELSE LET \* lines 163-164: self.get_correction(), with the default argument
             m1 == IF m = None
                   THEN MAfterCorrection(m, DefaultReturnCorrection, a, nml)
                   ELSE m
             \* line 166 passes self.kernel, never the kernel argument
             used == k
         IN  IF used = None
             THEN [outcome |-> "TypeError", value |-> None, M |-> m1]
             ELSE IF DOMAIN used.v # DOMAIN ufield
             THEN [outcome |-> "BroadcastError", value |-> None, M |-> m1]
             ELSE IF m1 = None
             THEN [outcome |-> "TypeError", value |-> None, M |-> m1]
             ELSE [outcome |-> "ok", value |-> Some(get_REWS(ufield, used.v, m1.v)),
                   M |-> m1]

Turbine_get_REWS ==
    /\ ncalls < MaxCalls
    /\ \E ufield \in UFields, karg \in KernelArgsREWS :
          LET r == REWSCall(kernel, M, attrs, input_nml, ufield, karg)
          IN  /\ M' = r.M
              /\ ret' = [op |-> "get_REWS", args |-> [ufield |-> ufield, kernel |-> karg],
                         outcome |-> r.outcome, value |-> r.value]
    /\ ncalls' = ncalls + 1
    /\ ctrl' = None
    /\ UNCHANGED <<input_nml, attrs, kernel, sort_by, nsynth, overwritten, first, turbines>>

(* -------------------------- construction ------------------------------ *)

\* the namelists turbines are built from: every required variable, and any
\* choice of the optional ones
Required == {[xloc |-> Some(0), yloc |-> Some(0), zloc |-> Some(0),
              ct |-> Some(2), diam |-> Some(5)]}
OptGroup(var, values) == {<<>>} \cup {(var :> Some(v)) : v \in values}
Namelists ==
    {[io |-> [runid |-> Some(1)], actuator_disk |-> r @@ y @@ t @@ f @@ u] :
        r \in Required, y \in OptGroup("yaw", {90}), t \in OptGroup("tilt", {0}),
        f \in OptGroup("filterwidth", {2}), u \in OptGroup("usecorrection", {TRUE})}

NoCall == [op |-> "__init__", args |-> <<>>, outcome |-> "ok", value |-> None]

\* Turbine.__init__(nml, sort=sort): the attributes read from the namelist and
\* the sort key, taken as given
Turbine(nml, sort) == [attrs |-> InitAttrs(nml), sort_by |-> sort]

\* a turbine built with the default sort key, no kernel, no correction factor
Init ==
    \E nml \in Namelists :
        /\ input_nml = nml
        /\ attrs = Turbine(nml, "xloc").attrs
        /\ kernel = None
        /\ M = None
        /\ sort_by = Turbine(nml, "xloc").sort_by
        /\ ret = NoCall
        /\ nsynth = 0
        /\ ncalls = 0
        /\ ctrl = None
        /\ overwritten = FALSE
        /\ first = None
        /\ turbines = <<>>

Next == get_kernel \/ Turbine_get_correction \/ Turbine_get_REWS

Spec == Init /\ [][Next]_vars

(* ------------------- the control-point generator ---------------------- *)

\* turbines of every diameter up to MaxDiam, on and off the origin, unyawed
\* and yawed
CtrlNamelists ==
    {[io |-> [runid |-> Some(1)],
      actuator_disk |-> [xloc |-> Some(c[1]), yloc |-> Some(c[2]), zloc |-> Some(0),
                         ct |-> Some(2), diam |-> Some(d), yaw |-> Some(w),
                         tilt |-> Some(0)]] :
        c \in {0, 1} \X {0, 1}, d \in 1..MaxDiam, w \in {0, 90}}

InitCtrl ==
    \E nml \in CtrlNamelists :
        /\ input_nml = nml
        /\ attrs = Turbine(nml, "xloc").attrs
        /\ kernel = None
        /\ M = None
        /\ sort_by = Turbine(nml, "xloc").sort_by
        /\ ret = NoCall
        /\ nsynth = 0
        /\ ncalls = 0
        /\ ctrl = None
        /\ overwritten = FALSE
        /\ first = None
        /\ turbines = <<>>

\* _get_ctrl_pts(x, y, z) on axes of spacings dy and dz: ret records the
\* lattice handed to _rotate_ctrl_pts, ctrl the points returned
get_ctrl_pts ==
    /\ \E dy \in 1..MaxSpacing, dz \in 1..MaxSpacing :
          /\ ret' = [op |-> "_get_ctrl_pts", args |-> [dy |-> dy, dz |-> dz],
                     outcome |-> "ok", value |-> Some(Lattice(attrs, dy, dz))]
          /\ ctrl' = Some(_get_ctrl_pts(attrs, dy, dz))
    /\ UNCHANGED <<input_nml, attrs, kernel, M, sort_by, nsynth, ncalls, overwritten, first, turbines>>

NextCtrl == get_ctrl_pts

SpecCtrl == InitCtrl /\ [][NextCtrl]_vars

(* ------------------------- a turbine array ---------------------------- *)

Coords == {0, 1}
SortArgs == {"xloc", "yloc", "bogus"}

NmlAt(x, y) ==
    [io |-> [runid |-> Some(1)],
     actuator_disk |-> [xloc |-> Some(x), yloc |-> Some(y), zloc |-> Some(0),
                        ct |-> Some(2), diam |-> Some(1)]]

\* Turbine.__lt__ raises KeyError when the sort key is no attribute of both
LtRaises(self, other) ==
    /\ self.sort_by # "xloc"
    /\ \/ self.sort_by \notin DOMAIN self.attrs
       \/ self.sort_by \notin DOMAIN other.attrs

\* Turbine.__lt__(self, other), where it does not raise
Lt_notie(self, other) ==
    IF self.sort_by = "xloc"
    THEN self.attrs.xloc < other.attrs.xloc
    ELSE self.attrs[self.sort_by] < other.attrs[self.sort_by]
Lt_le(self, other) ==
    IF self.sort_by = "xloc"
    THEN IF self.attrs.xloc = other.attrs.xloc
         THEN self.attrs.yloc < other.attrs.yloc
         ELSE self.attrs.xloc < other.attrs.xloc
    ELSE self.attrs[self.sort_by] <= other.attrs[self.sort_by]
Lt(self, other) ==
    IF self.sort_by = "xloc"
    THEN IF self.attrs.xloc = other.attrs.xloc
         THEN self.attrs.yloc < other.attrs.yloc
         ELSE self.attrs.xloc < other.attrs.xloc
    ELSE self.attrs[self.sort_by] < other.attrs[self.sort_by]

RECURSIVE BinSearch(_, _, _, _)
\* where pivot goes in the sorted prefix s[l+1 .. r]: None when a comparison raises
BinSearch(s, pivot, l, r) ==
    IF l >= r THEN Some(l)
    ELSE LET p == l + (r - l) \div 2
         IN  IF LtRaises(pivot, s[p + 1]) THEN None
             ELSE IF Lt(pivot, s[p + 1]) THEN BinSearch(s, pivot, l, p)
             ELSE BinSearch(s, pivot, p + 1, r)

RECURSIVE InsertFrom(_, _)
\* binary insertion sort of s, whose first i elements are sorted
InsertFrom(s, i) ==
    IF i >= Len(s) THEN Some(s)
    ELSE LET pivot == s[i + 1]
             at == BinSearch(s, pivot, 0, i)
         IN  IF at = None THEN None
             ELSE InsertFrom(SubSeq(s, 1, at.v) \o <<pivot>> \o SubSeq(s, at.v + 1, i)
                             \o SubSeq(s, i + 2, Len(s)), i + 1)

\* sorted(turbines): a stable comparison sort that uses only <
sorted(s) == InsertFrom(s, 1)

InitOrder ==
    /\ input_nml = <<>>
    /\ attrs = <<>>
    /\ kernel = None
    /\ M = None
    /\ sort_by = "xloc"
    /\ ret = NoCall
    /\ nsynth = 0
    /\ ncalls = 0
    /\ ctrl = None
    /\ overwritten = FALSE
    /\ first = None
    /\ turbines = <<>>

\* Turbine(nml, sort=sort) appended to the array
NewTurbine ==
    /\ Len(turbines) < MaxTurbines
    /\ \E x \in Coords, y \in Coords, sort \in SortArgs :
          turbines' = Append(turbines, Turbine(NmlAt(x, y), sort))
    /\ ret' = [op |-> "__init__", outcome |-> "ok", value |-> None]
    /\ UNCHANGED <<input_nml, attrs, kernel, M, sort_by, nsynth, ncalls, ctrl, overwritten, first>>

\* Turbine.set_sort(sort) on the i-th turbine of the array
set_sort ==
    /\ \E i \in DOMAIN turbines, sort \in SortArgs :
          IF sort \in DictKeys(turbines[i].attrs)
          THEN /\ turbines' = [turbines EXCEPT ![i].sort_by = sort]
               /\ ret' = [op |-> "set_sort", outcome |-> "ok", value |-> None]
          ELSE /\ turbines' = turbines
               /\ ret' = [op |-> "set_sort", outcome |-> "InvalidSort", value |-> None]
    /\ UNCHANGED <<input_nml, attrs, kernel, M, sort_by, nsynth, ncalls, ctrl, overwritten, first>>

\* sorted(turbines)
SortTurbines ==
    /\ turbines # <<>>
    /\ ret' = IF sorted(turbines) = None
              THEN [op |-> "sorted", outcome |-> "KeyError", value |-> None]
              ELSE [op |-> "sorted", outcome |-> "ok", value |-> sorted(turbines)]
    /\ UNCHANGED <<input_nml, attrs, kernel, M, sort_by, nsynth, ncalls, ctrl, overwritten, first, turbines>>

NextOrder == NewTurbine \/ set_sort \/ SortTurbines

SpecOrder == InitOrder /\ [][NextOrder]_vars

(* ====================== properties: kernel cache ====================== *)

\* this step is a call of the named method
Called(op) == ncalls' = ncalls + 1 /\ ret'.op = op

\* the kernel a get_kernel call gave: the one returned, else the one cached
Given == IF ret.args.return_kernel THEN ret.value ELSE kernel

\* C1, as stated: while no get_kernel call has passed overwrite=True, at most
\* one synthesis has run and every successful request has given the kernel
\* the first one gave.
C1_AsStated ==
    ~overwritten =>
        /\ nsynth <= 1
        /\ (ret.op = "get_kernel" /\ ret.outcome = "ok") => Given = first

\* C1, amended: a get_kernel call without overwrite on a turbine that has a
\* stored kernel runs no synthesis, leaves the stored kernel as it is and, if
\* asked to return a kernel, returns the stored one; a successful call with
\* return_kernel=True on a turbine without a stored kernel runs one synthesis
\* and stores nothing.
C1_StoredKernelReused ==
    [][ (Called("get_kernel") /\ ~ret'.args.overwrite) =>
          /\ kernel # None =>
                /\ nsynth' = nsynth
                /\ kernel' = kernel
                /\ ret'.outcome = "ok"
                /\ ret'.value = IF ret'.args.return_kernel THEN kernel ELSE None
          /\ (kernel = None /\ ret'.args.return_kernel /\ ret'.outcome = "ok") =>
                /\ nsynth' = nsynth + 1
                /\ kernel' = None
                /\ ret'.value # None ]_vars

\* a second request, without overwrite, served from the kernel a first one stored
C1_Witness ==
    /\ ret.op = "get_kernel" /\ ret.outcome = "ok"
    /\ ~overwritten /\ ncalls >= 2 /\ nsynth = 1
    /\ kernel # None /\ ret.args.return_kernel /\ ret.value = kernel

\* C4, as stated: whatever the state of the turbine, a get_kernel call with
\* an ADM_type other than 5 raises the unsupported-type error and returns
\* no kernel.
C4_AsStated ==
    (ret.op = "get_kernel" /\ ret.args.ADM_type # 5) =>
        (ret.outcome = "UnsupportedADM" /\ ret.value = None)

\* C4, amended: a get_kernel call with an ADM_type other than 5 raises the
\* unsupported-type error, returns nothing and leaves both caches alone when
\* it has to synthesize (no stored kernel, or overwrite=True); with a stored
\* kernel and no overwrite it succeeds, giving the stored kernel, whatever the
\* ADM_type.
C4_UnsupportedWhenSynthesizing ==
    [][ (Called("get_kernel") /\ ret'.args.ADM_type # 5) =>
          IF kernel = None \/ ret'.args.overwrite
          THEN /\ ret'.outcome = "UnsupportedADM" /\ ret'.value = None
               /\ kernel' = kernel /\ M' = M /\ nsynth' = nsynth
          ELSE /\ ret'.outcome = "ok" /\ kernel' = kernel /\ nsynth' = nsynth
               /\ ret'.value = IF ret'.args.return_kernel THEN kernel ELSE None ]_vars

\* an overwrite with ADM_type 4 refused on a turbine that keeps its stored kernel
C4_Witness ==
    /\ ret.op = "get_kernel" /\ ret.args.ADM_type = 4 /\ ret.args.overwrite
    /\ ret.outcome = "UnsupportedADM" /\ kernel # None

\* C9: a get_kernel call that has to synthesize, with ADM_type 5, no fwidth
\* argument and no filterwidth in the namelist, raises the missing-filter-width
\* error and leaves the stored kernel and the stored correction factor as
\* they were.
C9_MissingFwidthAllOrNothing ==
    [][ ( /\ Called("get_kernel")
          /\ kernel = None \/ ret'.args.overwrite
          /\ ret'.args.ADM_type = 5
          /\ ret'.args.fwidth = None
          /\ "filterwidth" \notin DOMAIN input_nml.actuator_disk ) =>
          /\ ret'.outcome = "NoFilterwidth" /\ ret'.value = None
          /\ kernel' = kernel /\ M' = M /\ nsynth' = nsynth ]_vars

\* the error raised by an overwrite on a turbine whose kernel, stored by a
\* call that passed fwidth, is still there
C9_Witness ==
    /\ ret.op = "get_kernel" /\ ret.outcome = "NoFilterwidth"
    /\ ret.args.overwrite /\ kernel # None

\* C8: on a turbine whose namelist gives a filter width but no yaw or no
\* tilt, a get_kernel call with ADM_type 5 succeeds, and the control points
\* it generates are the unrotated lattice.
C8_AsStated ==
    ( /\ ret.op = "get_kernel" /\ ret.args.ADM_type = 5
      /\ "filterwidth" \in DOMAIN attrs
      /\ ~CanRotate(attrs) ) =>
        /\ ret.outcome = "ok"
        /\ ctrl = Some(Lattice(attrs, Grid.y[2] - Grid.y[1], Grid.z[2] - Grid.z[1]))

(* ================= properties: correction factor, REWS ================ *)

\* C2: a get_REWS call on a turbine without a stored correction factor, with
\* a kernel at hand, stores the computed factor and returns the weighted sum
\* multiplied by it.
C2_AsStated ==
    [][ ( /\ Called("get_REWS")
          /\ M = None
          /\ kernel # None
          /\ DOMAIN kernel.v = DOMAIN ret'.args.ufield ) =>
          /\ M' = Some(CorrectionOf(attrs, input_nml))
          /\ ret'.outcome = "ok"
          /\ ret'.value = Some(get_REWS(ret'.args.ufield, kernel.v, M'.v)) ]_vars

\* C3: get_REWS raises the missing-kernel error exactly when there is neither
\* a stored nor an explicit kernel, and a call with an explicit kernel on a
\* turbine without a stored one is evaluated with the explicit kernel (here:
\* on a turbine whose correction factor is stored).
C3_AsStated ==
    [][ Called("get_REWS") =>
          /\ (ret'.outcome = "NoKernel") <=> (kernel = None /\ ret'.args.kernel = None)
          /\ (kernel = None /\ ret'.args.kernel # None /\ M # None) =>
                /\ ret'.outcome = "ok"
                /\ ret'.value = Some(get_REWS(ret'.args.ufield, ret'.args.kernel.v, M.v)) ]_vars

(* ===================== properties: control points ===================== *)

\* C10: the lattice _get_ctrl_pts hands to _rotate_ctrl_pts is never empty:
\* it holds the disk centre, and each of its points has x = xloc and a (y, z)
\* offset from the centre that is a whole multiple of (dy, dz) strictly
\* inside the circle of radius diam / 2; the points returned are as many, so
\* that their min and max exist.
C10_LatticeHasCentre ==
    ret.op = "_get_ctrl_pts" =>
        LET pts == ret.value.v
            dy == ret.args.dy
            dz == ret.args.dz
        IN  /\ Len(pts) > 0
            /\ \E i \in DOMAIN pts : pts[i] = <<attrs.xloc, attrs.yloc, attrs.zloc>>
            /\ \A i \in DOMAIN pts :
                  LET oy == pts[i][2] - attrs.yloc
                      oz == pts[i][3] - attrs.zloc
                  IN  /\ pts[i][1] = attrs.xloc
                      /\ oy % dy = 0 /\ oz % dz = 0
                      /\ 4 * (oy * oy + oz * oz) < attrs.diam * attrs.diam
            /\ \A i, j \in DOMAIN pts : i # j => pts[i] # pts[j]
            /\ ctrl # None /\ Len(ctrl.v) = Len(pts)

\* grid spacings larger than the disk radius: the centre is the only point
C10_Witness ==
    /\ ret.op = "_get_ctrl_pts"
    /\ 2 * ret.args.dy > attrs.diam /\ 2 * ret.args.dz > attrs.diam
    /\ Len(ret.value.v) = 1 /\ attrs.yaw = 90

(* ===================== properties: turbine order ====================== *)

\* C5: the sort key of every turbine names one of its attributes.
C5_AsStated ==
    \A i \in DOMAIN turbines : turbines[i].sort_by \in DictKeys(turbines[i].attrs)

\* the sort key of a turbine is a numeric attribute every turbine has
ValidKey(t) == t.sort_by \in {"xloc", "yloc"}

Ts == {turbines[i] : i \in DOMAIN turbines}

\* what < compares under a sort key: (xloc, yloc), else the named attribute
KeyOf(t) == IF t.sort_by = "xloc" THEN <<t.attrs.xloc, t.attrs.yloc>>
            ELSE <<t.attrs[t.sort_by]>>

\* C6, as stated: over turbines with valid sort keys, < is irreflexive,
\* asymmetric and transitive, and orders any two distinct turbines of the
\* array one way or the other.
C6_AsStated ==
    (\A t \in Ts : ValidKey(t)) =>
        /\ \A a \in Ts : ~Lt(a, a)
        /\ \A a, b \in Ts : ~(Lt(a, b) /\ Lt(b, a))
        /\ \A a, b, c \in Ts : (Lt(a, b) /\ Lt(b, c)) => Lt(a, c)
        /\ \A i, j \in DOMAIN turbines :
              i # j => (Lt(turbines[i], turbines[j]) \/ Lt(turbines[j], turbines[i]))

\* C6, amended: over turbines that share one valid sort key, < is
\* irreflexive, asymmetric and transitive, and orders two turbines one way
\* or the other exactly when what the key compares differs between them.
C6_StrictWeakOrder ==
    ((\A t \in Ts : ValidKey(t)) /\ (\A a, b \in Ts : a.sort_by = b.sort_by)) =>
        /\ \A a \in Ts : ~Lt(a, a)
        /\ \A a, b \in Ts : ~(Lt(a, b) /\ Lt(b, a))
        /\ \A a, b, c \in Ts : (Lt(a, b) /\ Lt(b, c)) => Lt(a, c)
        /\ \A a, b \in Ts : (Lt(a, b) \/ Lt(b, a)) <=> (KeyOf(a) # KeyOf(b))

\* three turbines sorted by yloc, two of them level and one apart
C6_Witness ==
    /\ Len(turbines) = 3
    /\ \A t \in Ts : t.sort_by = "yloc"
    /\ turbines[1].attrs.yloc = turbines[2].attrs.yloc
    /\ turbines[1].attrs.xloc # turbines[2].attrs.xloc
    /\ Lt(turbines[3], turbines[1])

\* (xloc, yloc) of a before that of b
LexBefore(a, b) ==
    \/ a.attrs.xloc < b.attrs.xloc
    \/ a.attrs.xloc = b.attrs.xloc /\ a.attrs.yloc < b.attrs.yloc

\* s is a rearrangement of t
IsPermutation(s, t) ==
    /\ Len(s) = Len(t)
    /\ \E f \in [DOMAIN s -> DOMAIN t] :
          /\ \A i, j \in DOMAIN s : i # j => f[i] # f[j]
          /\ \A i \in DOMAIN s : s[i] = t[f[i]]

\* C7: between turbines sorted by "xloc", a < b exactly when a.xloc < b.xloc,
\* or a.xloc = b.xloc and a.yloc < b.yloc; and sorting an array of such
\* turbines rearranges it into non-decreasing xloc, with non-decreasing yloc
\* among equal xloc.
C7_XlocThenYloc ==
    (\A t \in Ts : t.sort_by = "xloc") =>
        /\ \A a, b \in Ts : Lt(a, b) <=> LexBefore(a, b)
        /\ ret.op = "sorted" =>
              /\ ret.outcome = "ok"
              /\ IsPermutation(ret.value.v, turbines)
              /\ \A i, j \in DOMAIN ret.value.v :
                    i < j => ~LexBefore(ret.value.v[j], ret.value.v[i])

\* an array of three, out of order and with a tie in xloc, has been sorted
C7_Witness ==
    /\ ret.op = "sorted" /\ ret.outcome = "ok"
    /\ Len(turbines) = 3
    /\ \A t \in Ts : t.sort_by = "xloc"
    /\ ret.value.v # turbines
    /\ turbines[1].attrs.xloc = turbines[2].attrs.xloc
    /\ turbines[2].attrs.yloc < turbines[1].attrs.yloc
    /\ turbines[3].attrs.xloc < turbines[1].attrs.xloc

====
